---- MODULE Spec2Model ----
(***************************************************************************)
(* Model of src/scraper1.py: the tender scraper.                           *)
(*                                                                         *)
(* Text is a sequence of one-character strings, so that the conversions    *)
(* of get_tender_value (replace, strip, upper, int(float(...))) are        *)
(* computed and not assumed.  A Python value that may be None is a         *)
(* sequence of length 0 (None) or 1 (the value).                           *)
(***************************************************************************)
EXTENDS Integers, Sequences, FiniteSets, TLC

VARIABLES
    tender_collection,   \* the MongoDB collection: tender_id -> number of documents
    pc,                  \* per run: position in the __main__ script
    email_body,          \* per run: the digest, a sequence of appended pieces
    main_page_html,      \* per run: result of fetch_page(MAIN_URL)
    department_table,    \* per run: result of get_department_table
    deptIdx,             \* per run: index of `dept` in departments_to_search
    count,               \* per run: the department's counter
    org_page_html,       \* per run: result of fetch_page(dept_link) for the last department fetched
    tender_links,        \* per run: links of the current organisation page
    tenderIdx,           \* per run: index of `tender_url` in tender_links
    detail_html,         \* per run: result of fetch_page for the tender just processed
    tender_values,       \* per run: result of get_tender_value for that tender
    last,                \* per run: the branch taken, when the last step ended a tender iteration
    handled,             \* per run: ids that reached the dedup check and finished
    failed_tender_html,  \* per run: number of files written by save_failed_html
    sent,                \* per run: number of send_email calls
    delivered,           \* per run: "no" before send_email, then "sent" or "refused"
    departments_to_search, \* the configured list (DEPARTMENTS)
    portal,              \* what the portal serves: "any" page, or only "wellformed" ones
    runsStarted,         \* number of runs started so far
    reported,            \* tender_id -> number of fragments appended, over all runs
    inserted,            \* per run: documents its insert_one calls added for the current department
    scenario,            \* per run: the run so far is the run of the end-to-end scenario
    deptIn,              \* department resolution in isolation: DEPARTMENTS and the portal's row
    deptOut,             \* department resolution in isolation: the link of each configured name
    fetchIn,             \* fetch_page in isolation: the url and the three responses
    fetchOut,            \* fetch_page in isolation: its result
    valueIn,             \* get_tender_value in isolation: the detail page
    valueOut             \* get_tender_value in isolation: its result

vars == <<tender_collection, pc, email_body, main_page_html, department_table, deptIdx, count,
          org_page_html, tender_links, tenderIdx, detail_html, tender_values, last, handled,
          failed_tender_html, sent, delivered, departments_to_search, portal,
          runsStarted, reported, inserted, scenario, fetchIn, fetchOut, valueIn,
          valueOut, deptIn, deptOut>>

None == <<>>
Some(x) == <<x>>

-----------------------------------------------------------------------------
(* Bounds *)

MaxRuns == 2        \* runs executed one after the other
MaxLinks == 2       \* tender links on one organisation page
MaxTokLen == 2      \* length of the generated value tokens
MaxNameLen == 3     \* length of the generated department names

-----------------------------------------------------------------------------
(* Text *)

Rupee == "₹"
Digits == {"0", "1", "2", "3", "4", "5", "6", "7", "8", "9"}
Whitespace == {" "}

DigitVal(c) ==
    CASE c = "0" -> 0 [] c = "1" -> 1 [] c = "2" -> 2 [] c = "3" -> 3
      [] c = "4" -> 4 [] c = "5" -> 5 [] c = "6" -> 6 [] c = "7" -> 7
      [] c = "8" -> 8 [] c = "9" -> 9

\* str.upper() on the letters the model uses
UpperChar(c) ==
    CASE c = "n" -> "N" [] c = "a" -> "A" [] c = "b" -> "B" [] c = "c" -> "C"
      [] c = "i" -> "I" [] c = "f" -> "F" [] c = "t" -> "T" [] c = "y" -> "Y"
      [] c = "p" -> "P"
      [] OTHER -> c

upper(s) == [i \in 1..Len(s) |-> UpperChar(s[i])]

\* str.replace(ch, "")
remove(s, ch) == SelectSeq(s, LAMBDA c : c # ch)

RECURSIVE lstrip(_)
lstrip(s) ==
    IF s # <<>> /\ Head(s) \in Whitespace THEN lstrip(Tail(s)) ELSE s

RECURSIVE rstrip(_)
rstrip(s) ==
    IF s # <<>> /\ s[Len(s)] \in Whitespace
    THEN rstrip(SubSeq(s, 1, Len(s) - 1))
    ELSE s

\* str.strip(), also get_text(strip=True) on a cell with one text node
strip(s) == lstrip(rstrip(s))

\* str.split(sep) for a one-character separator
RECURSIVE split(_, _)
split(s, sep) ==
    IF \A i \in 1..Len(s) : s[i] # sep
    THEN <<s>>
    ELSE LET i == CHOOSE k \in 1..Len(s) :
                      s[k] = sep /\ \A j \in 1..(k - 1) : s[j] # sep
         IN  <<SubSeq(s, 1, i - 1)>> \o split(SubSeq(s, i + 1, Len(s)), sep)

\* lines 55-57: the configured names, split at the commas and stripped
departments(DEPARTMENTS) ==
    [i \in 1..Len(split(DEPARTMENTS, ",")) |-> strip(split(DEPARTMENTS, ",")[i])]

RECURSIVE ToNat(_)
ToNat(s) ==
    IF s = <<>> THEN 0 ELSE 10 * ToNat(SubSeq(s, 1, Len(s) - 1)) + DigitVal(s[Len(s)])

AllDigits(s) == \A i \in 1..Len(s) : s[i] \in Digits

FloatResult(kind, neg, int) == [kind |-> kind, neg |-> neg, int |-> int]

\* a decimal literal with one point at position d
FloatPointed(neg, body, d) ==
    IF /\ AllDigits(SubSeq(body, 1, d - 1))
       /\ AllDigits(SubSeq(body, d + 1, Len(body)))
       /\ Len(body) > 1
    THEN FloatResult("float", neg, ToNat(SubSeq(body, 1, d - 1)))
    ELSE FloatResult("ValueError", neg, 0)

\* the literal after its sign
FloatUnsigned(neg, body, word, dots) ==
    IF word \in {<<"I", "N", "F">>, <<"I", "N", "F", "I", "N", "I", "T", "Y">>}
    THEN FloatResult("inf", neg, 0)
    ELSE IF word = <<"N", "A", "N">>
    THEN FloatResult("nan", neg, 0)
    ELSE IF dots = {}
    THEN IF body # <<>> /\ AllDigits(body)
         THEN FloatResult("float", neg, ToNat(body))
         ELSE FloatResult("ValueError", neg, 0)
    ELSE IF Cardinality(dots) = 1
    THEN FloatPointed(neg, body, CHOOSE i \in dots : TRUE)
    ELSE FloatResult("ValueError", neg, 0)

FloatSigned(neg, body) ==
    FloatUnsigned(neg, body, upper(body), {i \in 1..Len(body) : body[i] = "."})

FloatStripped(s) ==
    IF s # <<>> /\ Head(s) \in {"+", "-"}
    THEN FloatSigned(Head(s) = "-", Tail(s))
    ELSE FloatSigned(FALSE, s)

\* float(text): "float" with the integer part and the sign of the value (the
\* fraction is dropped by int() anyway), "inf", "nan", or "ValueError".
\* Covers the decimal forms [sign] digits [. digits] and [sign] . digits and
\* the words inf, infinity and nan in any case; the model's alphabet has no
\* exponent and no underscore.
float(text) == FloatStripped(strip(text))

\* int(x) of a float
int(f) ==
    CASE f.kind = "float" ->
           [exc |-> "none", v |-> IF f.neg THEN 0 - f.int ELSE f.int]
      [] f.kind = "inf" -> [exc |-> "OverflowError", v |-> 0]
      [] OTHER -> [exc |-> "ValueError", v |-> 0]

\* int(float(text)): the integer (truncated toward zero), or the exception
\* raised: ValueError from float() or from int(nan), OverflowError from
\* int(inf).
int_float(text) == int(float(text))

-----------------------------------------------------------------------------
(* Pages.  A page is what the extractors read from its HTML:               *)
(*   empty       the body is the empty string (falsy in Python)            *)
(*   marker      the body contains "Your session has timed out"            *)
(*   list_tables number of <table class="list_table">                      *)
(*   dept_rows   rows of the third list_table: cells, text of cells[1],    *)
(*               href of the link in cells[2] (None: no link)              *)
(*   link_rows   rows of the first list_table: cells, href of the link in  *)
(*               cells[4] (None: no link)                                  *)
(*   value_cell  the "Tender Value in ₹" label cell, its sibling, its text *)
(*   summary     the table of class "tablebg": present, number of rows,    *)
(*               <b> text of row 3 cell 2 (tender id) and of row 1 cell 2  *)
(*               (organisation chain); None: the cell or its <b> is missing*)
(***************************************************************************)

NoValueCell == [label |-> FALSE, sibling |-> FALSE, text |-> <<>>]
ValueCell(text) == [label |-> TRUE, sibling |-> TRUE, text |-> text]
NoSummary == [table |-> FALSE, rows |-> 0, tender_id |-> None, chain |-> None]
Summary(id, chain) == [table |-> TRUE, rows |-> 3, tender_id |-> id, chain |-> chain]

Html(marker, n, drows, lrows, vcell, summ) ==
    [empty |-> FALSE, marker |-> marker, list_tables |-> n, dept_rows |-> drows,
     link_rows |-> lrows, value_cell |-> vcell, summary |-> summ]

EmptyText ==
    [empty |-> TRUE, marker |-> FALSE, list_tables |-> 0, dept_rows |-> <<>>,
     link_rows |-> <<>>, value_cell |-> NoValueCell, summary |-> NoSummary]

\* the page the portal serves for an invalidated session
ExpiredPage == Html(TRUE, 0, <<>>, <<>>, NoValueCell, NoSummary)
\* an error page: no marker, none of the tables
ErrorPage == Html(FALSE, 0, <<>>, <<>>, NoValueCell, NoSummary)

DetailPage(text, id, chain) ==
    Html(FALSE, 0, <<>>, <<>>, ValueCell(text), Summary(id, chain))

-----------------------------------------------------------------------------
(* fetch_page *)

BASE_URL == "https://eproc.rajasthan.gov.in"
MAIN_URL == <<BASE_URL, "/nicgep/app?page=FrontEndTendersByOrganisation&service=page">>
restart_url == <<BASE_URL, "/nicgep/app?service=restart">>

\* What session.get does: raises a RequestException (exc), or returns a
\* response with a status (ok: raise_for_status passes) and a body.
Response(exc, ok, text) == [exc |-> exc, ok |-> ok, text |-> text]
NetworkError == Response(TRUE, FALSE, EmptyText)

Responses(pages) ==
    {NetworkError} \cup {Response(FALSE, ok, t) : ok \in BOOLEAN, t \in pages}

\* fetch_page with the recovery repeated when the retried page is expired too
fetch_page_again(url, r1, rr, r2) ==
    IF r1.exc \/ ~r1.ok
    THEN [text |-> None, requests |-> <<url>>]
    ELSE IF r1.text.marker
    THEN IF rr.exc
         THEN [text |-> None, requests |-> <<url, restart_url>>]
         ELSE IF r2.exc \/ ~r2.ok
         THEN [text |-> None, requests |-> <<url, restart_url, url>>]
         ELSE IF r2.text.marker
         THEN [text |-> Some(r2.text),
               requests |-> <<url, restart_url, url, restart_url, url>>]
         ELSE [text |-> Some(r2.text), requests |-> <<url, restart_url, url>>]
    ELSE [text |-> Some(r1.text), requests |-> <<url>>]

\* fetch_page(url) against the responses r1 (first GET), rr (restart GET) and
\* r2 (retried GET): the text returned (None on RequestException) and the
\* requests issued, in order.
fetch_page(url, r1, rr, r2) ==
    IF r1.exc \/ ~r1.ok
    THEN [text |-> None, requests |-> <<url>>]
    ELSE IF r1.text.marker
    THEN IF rr.exc
         THEN [text |-> None, requests |-> <<url, restart_url>>]
         ELSE IF r2.exc \/ ~r2.ok
         THEN [text |-> None, requests |-> <<url, restart_url, url>>]
         ELSE [text |-> Some(r2.text), requests |-> <<url, restart_url, url>>]
    ELSE [text |-> Some(r1.text), requests |-> <<url>>]

\* every text fetch_page can return when the portal serves pages of `pages`
\* (the restart and the retry are only reached from an expired first page)
FetchResults(url, pages) ==
    {fetch_page(url, r1, NetworkError, NetworkError).text : r1 \in Responses(pages)}
    \cup {fetch_page(url, Response(FALSE, TRUE, ExpiredPage), rr, r2).text :
            rr \in Responses({ErrorPage}), r2 \in Responses(pages)}

\* a truth test that takes only None for a failure
Falsy_none_only(html) == html = None

\* Python truthiness of fetch_page's result: None and "" are falsy
Falsy(html) == html = None \/ html[1].empty

-----------------------------------------------------------------------------
(* Structural extractors *)

\* get_department_table taking the second list_table
get_department_table_second(html) ==
    IF html.list_tables < 2 THEN None ELSE Some(html.dept_rows)

\* get_department_table: the third list_table, None when there are fewer
get_department_table(html) ==
    IF html.list_tables < 3 THEN None ELSE Some(html.dept_rows)

DeptRow(cells, org_name, href) == [cells |-> cells, org_name |-> org_name, href |-> href]

\* extract_department_link comparing the names without regard to case
extract_department_link_nocase(table, dept_name) ==
    LET hits == {i \in 1..Len(table) :
                    /\ table[i].cells >= 3
                    /\ upper(strip(table[i].org_name)) = upper(dept_name)
                    /\ table[i].href # None}
    IN  IF hits = {}
        THEN None
        ELSE LET i == CHOOSE k \in hits : \A j \in hits : k <= j
             IN  Some(<<BASE_URL, table[i].href[1]>>)

\* extract_department_link: the first row with at least 3 cells whose
\* stripped cells[1] text equals dept_name and whose cells[2] holds a link
extract_department_link(table, dept_name) ==
    LET hits == {i \in 1..Len(table) :
                    /\ table[i].cells >= 3
                    /\ strip(table[i].org_name) = dept_name
                    /\ table[i].href # None}
    IN  IF hits = {}
        THEN None
        ELSE LET i == CHOOSE k \in hits : \A j \in hits : k <= j
             IN  Some(<<BASE_URL, table[i].href[1]>>)

LinkRow(cells, href) == [cells |-> cells, href |-> href]

\* get_tender_links_from_org_page: find_all(...)[0] raises IndexError when
\* the page has no list_table; rows with fewer than 5 cells or without a
\* link in cells[4] are skipped
get_tender_links_from_org_page(org_html) ==
    IF org_html.list_tables = 0
    THEN [raised |-> "IndexError", links |-> <<>>]
    ELSE LET rows == SelectSeq(org_html.link_rows,
                               LAMBDA r : r.cells >= 5 /\ r.href # None)
         IN  [raised |-> "none",
              links |-> [i \in 1..Len(rows) |-> <<BASE_URL, rows[i].href[1]>>]]

\* get_tender_id_organization_chain: (None, None) unless the tablebg table
\* has 3 rows and both <b> cells are there
id_and_chain(t) ==
    IF ~t.table \/ t.rows < 3 \/ t.tender_id = None \/ t.chain = None
    THEN [tender_id |-> None, chain |-> None]
    ELSE [tender_id |-> t.tender_id, chain |-> t.chain]

get_tender_id_organization_chain(html) == id_and_chain(html.summary)

-----------------------------------------------------------------------------
(* get_tender_value *)

Threshold == 3000000

\* line 242: value_text.replace(",", "").replace("₹", "").strip()
clean(value_text) == strip(remove(remove(value_text, ","), Rupee))

Converted(r) ==
    [exc |-> r.exc, tender_value |-> IF r.exc = "none" THEN Some(r.v) ELSE None]

\* lines 245-250: None for "NA"/"" , else int(float(clean_text))
parse_value(clean_text) ==
    IF upper(clean_text) = <<"N", "A">> \/ clean_text = <<>>
    THEN [exc |-> "none", tender_value |-> None]
    ELSE Converted(int_float(clean_text))

\* the comparison with the boundary value on the wrong side
below_or_at_threshold(tender_value) ==
    tender_value = None \/ tender_value[1] <= Threshold

\* line 252
below_threshold(tender_value) ==
    tender_value = None \/ tender_value[1] < Threshold

SKIP == [tender_id |-> Some("SKIP")]

\* lines 253-262: the dict of a kept tender
Record(tender_value, ic) ==
    [tender_id |-> ic.tender_id, tender_value |-> tender_value,
     tender_organization_chain |-> ic.chain]

\* lines 243-270 once the value is converted to v: only ValueError is caught
\* (line 268)
value_result(html, v) ==
    IF v.exc = "ValueError"
    THEN [raised |-> "none", ret |-> None]
    ELSE IF v.exc # "none"
    THEN [raised |-> v.exc, ret |-> None]
    ELSE IF below_threshold(v.tender_value)
    THEN [raised |-> "none",
          ret |-> Some(Record(v.tender_value, get_tender_id_organization_chain(html)))]
    ELSE [raised |-> "none", ret |-> Some(SKIP)]

\* get_tender_value(detail_html): the dict returned (None when the value is
\* not found or not convertible), or the exception that leaves the function
get_tender_value(html) ==
    IF ~html.value_cell.label \/ ~html.value_cell.sibling
    THEN [raised |-> "none", ret |-> None]
    ELSE value_result(html, parse_value(clean(strip(html.value_cell.text))))

-----------------------------------------------------------------------------
(* Inputs of the model *)

RECURSIVE SeqsUpTo(_, _)
SeqsUpTo(S, n) ==
    IF n = 0 THEN {<<>>}
    ELSE LET shorter == SeqsUpTo(S, n - 1)
         IN  shorter \cup {Append(t, c) : t \in shorter, c \in S}

TokenAlphabet == {"1", "N", "A", "n", "a", ",", ".", "-", " ", Rupee}

ExampleTokens ==
    { <<Rupee, "3", "0", ",", "0", "0", ",", "0", "0", "0">>,
      <<"3", "0", "0", "0", "0", "0", "0">>,
      <<"2", "9", "9", "9", "9", "9", "9">>,
      <<Rupee, " ", "2", "9", ",", "9", "9", ",", "9", "9", "9">>,
      <<"3", "0", "0", "0", "0", "0", "1">>,
      <<"2", "5", ",", "0", "0", ",", "0", "0", "0">>,
      <<"5", "0", ",", "0", "0", ",", "0", "0", "0">>,
      <<"N", "A">>, <<"n", "a">>, <<"N", "a">>, <<>>,
      <<"a", "b", "c">>, <<"n", "a", "n">>, <<"i", "n", "f">>,
      <<"-", "I", "n", "f", "i", "n", "i", "t", "y">>,
      <<"1", "2", ".", "7">>, <<"-", "5">>, <<"1", ".", "2", ".", "3">> }

ValueTokens == ExampleTokens \cup SeqsUpTo(TokenAlphabet, MaxTokLen)

TenderIds == {"T1", "T2"}

\* detail pages given to get_tender_value in isolation
ValuePages ==
    {DetailPage(t, id, Some("chain")) :
        t \in ValueTokens, id \in {None, Some("T1"), Some("")}}
    \cup {DetailPage(<<"1">>, Some("T1"), None), ExpiredPage, ErrorPage,
          Html(FALSE, 0, <<>>, <<>>, [label |-> TRUE, sibling |-> FALSE, text |-> <<>>],
               Summary(Some("T1"), Some("chain")))}

\* DEPARTMENTS values and portal cell texts given to the department
\* resolution in isolation: names that differ by case and by whitespace
NameAlphabet == {"P", "p", " "}
ConfiguredTexts == SeqsUpTo(NameAlphabet \cup {","}, MaxNameLen)
ListedNames == SeqsUpTo(NameAlphabet, MaxNameLen)
ListedRows ==
    {DeptRow(3, name, href) : name \in ListedNames, href \in {None, Some("/org1")}}

\* pages the portal serves to fetch_page in isolation
FetchPages == {ErrorPage, ExpiredPage, EmptyText}
FetchUrls == {MAIN_URL, <<BASE_URL, "/org1">>}

-----------------------------------------------------------------------------
(* The portal as the runs see it *)

Procs == {1, 2}

PWD == <<"P", "W", "D">>
WRD == <<"W", "R", "D">>

\* directory pages: both departments listed (with a header row and padded
\* cell text); the second department listed without a link; only two
\* list_table tables; the session-expired page; an empty body
DirectoryPages ==
    { Html(FALSE, 3, <<DeptRow(1, <<>>, None),
                       DeptRow(3, <<" ">> \o PWD \o <<" ">>, Some("/org1")),
                       DeptRow(3, WRD, Some("/org2"))>>,
           <<>>, NoValueCell, NoSummary),
      Html(FALSE, 3, <<DeptRow(3, PWD, Some("/org1")), DeptRow(3, WRD, None)>>,
           <<>>, NoValueCell, NoSummary),
      Html(FALSE, 2, <<>>, <<>>, NoValueCell, NoSummary),
      ExpiredPage, EmptyText }

TenderHref(i) == <<"/tender", i>>

\* organisation pages: a header row and k tender rows, k <= MaxLinks; an
\* error page without any list_table; the session-expired page; an empty body
OrgPages ==
    { Html(FALSE, 1, <<>>,
           <<LinkRow(1, None)>> \o [i \in 1..k |-> LinkRow(5, Some(TenderHref(i)))],
           NoValueCell, NoSummary) : k \in 0..MaxLinks }
    \cup {ErrorPage, ExpiredPage, EmptyText}

\* value cells of the detail pages the runs meet: below the threshold, above
\* it, not numeric, infinite
RunTokens ==
    { <<"2", "5", ",", "0", "0", ",", "0", "0", "0">>,
      <<"5", "0", ",", "0", "0", ",", "0", "0", "0">>,
      <<"a", "b", "c">>,
      <<"i", "n", "f">> }

\* ids the portal assigns: those of TenderIds, and the text "SKIP"
PortalIds == TenderIds \cup {"SKIP"}

DetailPages ==
    {DetailPage(t, id, Some("chain")) :
        t \in RunTokens, id \in {None} \cup {Some(i) : i \in PortalIds}}
    \cup {ExpiredPage, EmptyText}

\* the detail pages of a portal whose value cells are all numeric and finite
WellFormedTokens ==
    { <<"2", "5", ",", "0", "0", ",", "0", "0", "0">>,
      <<"5", "0", ",", "0", "0", ",", "0", "0", "0">> }

WellFormedDetailPages ==
    {DetailPage(t, id, Some("chain")) :
        t \in WellFormedTokens, id \in {None} \cup {Some(i) : i \in TenderIds}}

DirectoryResults == FetchResults(MAIN_URL, DirectoryPages)
OrgResults == FetchResults(MAIN_URL, OrgPages)
AnyDetailResults == FetchResults(MAIN_URL, DetailPages)
WellFormedDetailResults ==
    {None} \cup {Some(page) : page \in WellFormedDetailPages}
DetailResults == IF portal = "any" THEN AnyDetailResults ELSE WellFormedDetailResults

-----------------------------------------------------------------------------
(* The digest: email_body as the sequence of the pieces appended to it *)

Piece(kind, dept, url, id, value, n) ==
    [kind |-> kind, dept |-> dept, url |-> url, tender_id |-> id,
     tender_value |-> value, n |-> n]

BodyOpen == Piece("<html><body>", <<>>, <<>>, None, None, 0)
BodyClose == Piece("</body></html>", <<>>, <<>>, None, None, 0)
Heading(dept) == Piece("<h2>Department:", dept, <<>>, None, None, 0)
NotFoundLine == Piece("Not found or no link available.", <<>>, <<>>, None, None, 0)
OrgFailedLine == Piece("Failed to fetch organisation page.", <<>>, <<>>, None, None, 0)
TotalLine(n) == Piece("Found n total tenders.", <<>>, <<>>, None, None, n)
FailLine(url) == Piece("Failed to fetch tender details for", <<>>, url, None, None, 0)
\* the tender type and the dates, which are only displayed, are left out
Fragment(url, tv) ==
    Piece("Tender URL", <<>>, url, tv.tender_id, tv.tender_value, 0)
CountLine(n, dept) == Piece("Fount n new tenders for", dept, <<>>, None, None, n)

-----------------------------------------------------------------------------
(* The store *)

\* find_one with a filter that matches no document
find_one_nothing(collection, id) == FALSE

\* find_one with a filter that matches every document
find_one_anything(collection, id) == \E i \in DOMAIN collection : collection[i] > 0

\* tender_collection.find_one({"tender_id": id}) is truthy
find_one(collection, id) == collection[id] > 0

\* an insert that replaces the content of the collection
insert_one_replace(collection, id) ==
    [i \in DOMAIN collection |-> IF i = id THEN 1 ELSE 0]

\* an insert that is not written
insert_one_lost(collection, id) == collection

\* tender_collection.insert_one({"tender_id": id})
insert_one(collection, id) == [collection EXCEPT ![id] = @ + 1]

-----------------------------------------------------------------------------
(* get_tender_value and fetch_page in isolation *)

Idle ==
    /\ tender_collection = [id \in TenderIds |-> 0]
    /\ pc = [p \in Procs |-> "idle"]
    /\ email_body = [p \in Procs |-> <<>>]
    /\ main_page_html = [p \in Procs |-> None]
    /\ department_table = [p \in Procs |-> None]
    /\ org_page_html = [p \in Procs |-> None]
    /\ deptIdx = [p \in Procs |-> 0]
    /\ count = [p \in Procs |-> 0]
    /\ tender_links = [p \in Procs |-> <<>>]
    /\ tenderIdx = [p \in Procs |-> 0]
    /\ detail_html = [p \in Procs |-> None]
    /\ tender_values = [p \in Procs |-> None]
    /\ last = [p \in Procs |-> "none"]
    /\ handled = [p \in Procs |-> {}]
    /\ failed_tender_html = [p \in Procs |-> 0]
    /\ sent = [p \in Procs |-> 0]
    /\ delivered = [p \in Procs |-> "no"]
    /\ runsStarted = 0
    /\ reported = [id \in TenderIds |-> 0]
    /\ inserted = [p \in Procs |-> 0]
    /\ scenario = [p \in Procs |-> FALSE]

NoFetch == [url |-> MAIN_URL, r1 |-> NetworkError, rr |-> NetworkError, r2 |-> NetworkError]
NoDept == [DEPARTMENTS |-> <<>>, row |-> DeptRow(0, <<>>, None)]

mainVars == <<tender_collection, pc, email_body, main_page_html, department_table, deptIdx, count,
              org_page_html, tender_links, tenderIdx, detail_html, tender_values, last, handled,
              failed_tender_html, sent, delivered, departments_to_search, portal,
              runsStarted, reported, inserted, scenario>>

InitValue ==
    /\ Idle
    /\ departments_to_search = <<>>
    /\ portal = "any"
    /\ fetchIn = NoFetch /\ fetchOut = None
    /\ deptIn = NoDept /\ deptOut = None
    /\ valueIn \in ValuePages
    /\ valueOut = None

ApplyValue ==
    /\ valueOut = None
    /\ valueOut' = Some(get_tender_value(valueIn))
    /\ UNCHANGED <<mainVars, fetchIn, fetchOut, valueIn, deptIn, deptOut>>

SpecValue == InitValue /\ [][ApplyValue]_vars

InitFetch ==
    /\ Idle
    /\ departments_to_search = <<>>
    /\ portal = "any"
    /\ valueIn = ErrorPage /\ valueOut = None
    /\ deptIn = NoDept /\ deptOut = None
    /\ fetchIn \in [url : FetchUrls, r1 : Responses(FetchPages),
                     rr : Responses({ErrorPage}), r2 : Responses(FetchPages)]
    /\ fetchOut = None

ApplyFetch ==
    /\ fetchOut = None
    /\ fetchOut' = Some(fetch_page(fetchIn.url, fetchIn.r1, fetchIn.rr, fetchIn.r2))
    /\ UNCHANGED <<mainVars, fetchIn, valueIn, valueOut, deptIn, deptOut>>

SpecFetch == InitFetch /\ [][ApplyFetch]_vars

\* the department table of the isolated resolution: a header row and the
\* row under test
TableOf(row) == <<DeptRow(1, <<>>, None), row>>

InitDept ==
    /\ Idle
    /\ departments_to_search = <<>>
    /\ portal = "any"
    /\ fetchIn = NoFetch /\ fetchOut = None
    /\ valueIn = ErrorPage /\ valueOut = None
    /\ deptIn \in [DEPARTMENTS : ConfiguredTexts, row : ListedRows]
    /\ deptOut = None

\* lines 55-57 and 316: every configured name resolved against the table
ApplyDept ==
    /\ deptOut = None
    /\ deptOut' = Some([i \in 1..Len(departments(deptIn.DEPARTMENTS)) |->
                          extract_department_link(TableOf(deptIn.row),
                                                  departments(deptIn.DEPARTMENTS)[i])])
    /\ UNCHANGED <<mainVars, fetchIn, fetchOut, valueIn, valueOut, deptIn>>

SpecDept == InitDept /\ [][ApplyDept]_vars

-----------------------------------------------------------------------------
(* __main__: one run p of the script.  The store and the diagnostics       *)
(* directory are taken to answer every call; the SMTP relay may refuse.    *)

isoVars == <<fetchIn, fetchOut, valueIn, valueOut, deptIn, deptOut>>

dept(p) == departments_to_search[deptIdx[p]]
tender_url(p) == tender_links[p][tenderIdx[p]]

\* number of documents in the collection
RECURSIVE DocumentsIn(_, _)
DocumentsIn(collection, ids) ==
    IF ids = {} THEN 0
    ELSE LET id == CHOOSE i \in ids : TRUE
         IN  collection[id] + DocumentsIn(collection, ids \ {id})

Documents(collection) == DocumentsIn(collection, DOMAIN collection)

\* send_email without its try/except
send_email_uncaught(accepted) ==
    [raised |-> IF accepted THEN "none" ELSE "SMTPException",
     delivered |-> IF accepted THEN "sent" ELSE "refused"]

\* send_email (lines 274-297): whatever the relay raises is caught and logged
send_email(accepted) ==
    [raised |-> "none", delivered |-> IF accepted THEN "sent" ELSE "refused"]

\* The end-to-end scenario: the collection is empty; the directory lists
\* "Public Works Department" (PWD here) with a link; its organisation page
\* lists two tenders; the first detail page parses to 2,500,000 with id T1
\* and the second to 5,000,000 with id T2.
ScenarioStart(table) ==
    /\ Documents(tender_collection) = 0
    /\ table # None
    /\ extract_department_link(table[1], PWD) # None

ScenarioListing(dept_name, html) ==
    /\ dept_name = PWD
    /\ ~Falsy(html)
    /\ get_tender_links_from_org_page(html[1]).raised = "none"
    /\ Len(get_tender_links_from_org_page(html[1]).links) = 2

ScenarioPage(page, value, id) ==
    /\ page.value_cell.label /\ page.value_cell.sibling
    /\ parse_value(clean(strip(page.value_cell.text))) =
           [exc |-> "none", tender_value |-> Some(value)]
    /\ get_tender_id_organization_chain(page).tender_id = Some(id)

ScenarioTender(i, html) ==
    /\ ~Falsy(html)
    /\ \/ i = 1 /\ ScenarioPage(html[1], 2500000, "T1")
       \/ i = 2 /\ ScenarioPage(html[1], 5000000, "T2")

\* lines 299-310: a run starts, loads the directory page and the department
\* table, or exits with status 1
LoadDirectory(p) ==
    /\ runsStarted' = runsStarted + 1
    /\ email_body' = [email_body EXCEPT ![p] = <<BodyOpen>>]
    /\ count' = [count EXCEPT ![p] = 0]
    /\ tender_links' = [tender_links EXCEPT ![p] = <<>>]
    /\ tenderIdx' = [tenderIdx EXCEPT ![p] = 0]
    /\ detail_html' = [detail_html EXCEPT ![p] = None]
    /\ tender_values' = [tender_values EXCEPT ![p] = None]
    /\ last' = [last EXCEPT ![p] = "none"]
    /\ handled' = [handled EXCEPT ![p] = {}]
    /\ failed_tender_html' = [failed_tender_html EXCEPT ![p] = 0]
    /\ sent' = [sent EXCEPT ![p] = 0]
    /\ delivered' = [delivered EXCEPT ![p] = "no"]
    /\ inserted' = [inserted EXCEPT ![p] = 0]
    /\ org_page_html' = [org_page_html EXCEPT ![p] = None]
    /\ \E html \in DirectoryResults :
          LET table == IF Falsy(html) THEN None
                       ELSE get_department_table(html[1])
          IN  /\ main_page_html' = [main_page_html EXCEPT ![p] = html]
              /\ department_table' = [department_table EXCEPT ![p] = table]
              /\ scenario' = [scenario EXCEPT ![p] = ScenarioStart(table)]
              /\ IF table = None
                 THEN /\ pc' = [pc EXCEPT ![p] = "exit"]
                      /\ deptIdx' = [deptIdx EXCEPT ![p] = 0]
                 ELSE /\ pc' = [pc EXCEPT ![p] = "dept"]
                      /\ deptIdx' = [deptIdx EXCEPT ![p] = 1]
    /\ UNCHANGED <<tender_collection, departments_to_search, portal, reported, isoVars>>

\* runs one after the other: the only run is run 1, started again when over
StartRun(p) ==
    /\ p = 1
    /\ pc[p] \in {"idle", "done", "exit", "crashed"}
    /\ runsStarted < MaxRuns
    /\ LoadDirectory(p)

\* lines 313-328: one department up to its tender list
ProcessDepartment(p) ==
    /\ pc[p] = "dept"
    /\ deptIdx[p] <= Len(departments_to_search)
    /\ count' = [count EXCEPT ![p] = 0]
    /\ LET dept_link == extract_department_link(department_table[p][1], dept(p))
           body == Append(email_body[p], Heading(dept(p)))
       IN  IF dept_link = None
           THEN /\ email_body' = [email_body EXCEPT ![p] = Append(body, NotFoundLine)]
                /\ deptIdx' = [deptIdx EXCEPT ![p] = @ + 1]
                /\ scenario' = [scenario EXCEPT ![p] = FALSE]
                /\ UNCHANGED <<pc, org_page_html, tender_links, tenderIdx>>
           ELSE \E html \in OrgResults :
                  /\ org_page_html' = [org_page_html EXCEPT ![p] = html]
                  /\ scenario' = [scenario EXCEPT ![p] = @ /\ ScenarioListing(dept(p), html)]
                  /\ IF Falsy(html)
                     THEN /\ email_body' = [email_body EXCEPT ![p] = Append(body, OrgFailedLine)]
                          /\ deptIdx' = [deptIdx EXCEPT ![p] = @ + 1]
                          /\ UNCHANGED <<pc, tender_links, tenderIdx>>
                     ELSE LET got == get_tender_links_from_org_page(html[1])
                          IN  IF got.raised # "none"
                              THEN /\ pc' = [pc EXCEPT ![p] = "crashed"]
                                   /\ email_body' = [email_body EXCEPT ![p] = body]
                                   /\ UNCHANGED <<deptIdx, tender_links, tenderIdx>>
                              ELSE /\ tender_links' = [tender_links EXCEPT ![p] = got.links]
                                   /\ email_body' = [email_body EXCEPT ![p] =
                                                        Append(body, TotalLine(Len(got.links)))]
                                   /\ tenderIdx' = [tenderIdx EXCEPT ![p] = 1]
                                   /\ pc' = [pc EXCEPT ![p] = "tender"]
                                   /\ UNCHANGED deptIdx
    /\ last' = [last EXCEPT ![p] = "none"]
    /\ detail_html' = [detail_html EXCEPT ![p] = None]
    /\ tender_values' = [tender_values EXCEPT ![p] = None]
    /\ inserted' = [inserted EXCEPT ![p] = 0]
    /\ UNCHANGED <<tender_collection, main_page_html, department_table, handled,
                   failed_tender_html, sent, delivered, departments_to_search, portal,
                   runsStarted, reported, isoVars>>

\* a missing id treated like an unparsable page
outcome_of_strict(r) ==
    IF r.raised # "none" THEN "raised"
    ELSE IF r.ret = None THEN "unparsable"
    ELSE IF r.ret[1].tender_id = Some("SKIP") THEN "skip"
    ELSE IF r.ret[1].tender_id \in {None, Some("")} THEN "unparsable"
    ELSE "identified"

\* lines 337-349: the branch taken on the result r of get_tender_value
outcome_of(r) ==
    IF r.raised # "none" THEN "raised"
    ELSE IF r.ret = None THEN "unparsable"
    ELSE IF r.ret[1].tender_id = Some("SKIP") THEN "skip"
    ELSE IF r.ret[1].tender_id \in {None, Some("")} THEN "no_id"
    ELSE "identified"

\* lines 332-349: the branch one tender iteration takes before the store is
\* consulted
tender_outcome(html) ==
    IF Falsy(html) THEN "fetch_failed"
    ELSE outcome_of(get_tender_value(html[1]))

\* tender_values after line 336 (None as well when line 336 is not reached
\* or raises: the variable is assigned again before it is read)
parsed(html) ==
    IF Falsy(html) THEN None
    ELSE IF get_tender_value(html[1]).raised # "none" THEN None
    ELSE get_tender_value(html[1]).ret

\* the failure line written for a failed fetch instead of an unparsable page
body_after_fetch_failure(outcome, body, url) ==
    IF outcome = "fetch_failed" THEN Append(body, [kind |-> "Failed to fetch tender details for",
                                                    dept |-> <<>>, url |-> url, tender_id |-> None,
                                                    tender_value |-> None, n |-> 0])
    ELSE body

\* the failure line put in front of the digest
body_after_prepend(outcome, body, url) ==
    IF outcome = "unparsable"
    THEN <<[kind |-> "Failed to fetch tender details for", dept |-> <<>>, url |-> url,
            tender_id |-> None, tender_value |-> None, n |-> 0]>> \o body
    ELSE body

\* lines 338-339: what an iteration that ended with `outcome` appends
body_after(outcome, body, url) ==
    IF outcome = "unparsable" THEN Append(body, FailLine(url)) ELSE body

\* line 338: save_failed_html writes one file
saved_after(outcome, n) ==
    IF outcome = "unparsable" THEN n + 1 ELSE n

\* lines 337-349 for an iteration that took the branch `outcome`
TenderBranch(p, outcome) ==
    /\ last' = [last EXCEPT ![p] = outcome]
    /\ email_body' = [email_body EXCEPT ![p] = body_after(outcome, @, tender_url(p))]
    /\ failed_tender_html' = [failed_tender_html EXCEPT ![p] = saved_after(outcome, @)]
    /\ CASE outcome = "raised" ->
              /\ pc' = [pc EXCEPT ![p] = "crashed"]
              /\ UNCHANGED tenderIdx
         [] outcome = "identified" ->
              /\ pc' = [pc EXCEPT ![p] = "find_one"]
              /\ UNCHANGED tenderIdx
         [] OTHER ->
              /\ tenderIdx' = [tenderIdx EXCEPT ![p] = @ + 1]
              /\ UNCHANGED pc

\* lines 330-349: fetch and parse one tender
ProcessTender(p) ==
    /\ pc[p] = "tender"
    /\ tenderIdx[p] <= Len(tender_links[p])
    /\ \E html \in DetailResults :
          /\ detail_html' = [detail_html EXCEPT ![p] = html]
          /\ tender_values' = [tender_values EXCEPT ![p] = parsed(html)]
          /\ scenario' = [scenario EXCEPT ![p] = @ /\ ScenarioTender(tenderIdx[p], html)]
          /\ TenderBranch(p, tender_outcome(html))
    /\ UNCHANGED <<tender_collection, main_page_html, department_table, deptIdx, count, org_page_html, tender_links,
                   handled, sent, delivered, departments_to_search, portal, runsStarted,
                   reported, inserted, isoVars>>

tender_id(p) == tender_values[p][1].tender_id[1]

\* lines 352-356: the dedup check
FindOne(p) ==
    /\ pc[p] = "find_one"
    /\ IF find_one(tender_collection, tender_id(p))
       THEN /\ last' = [last EXCEPT ![p] = "seen"]
            /\ handled' = [handled EXCEPT ![p] = @ \cup {tender_id(p)}]
            /\ tenderIdx' = [tenderIdx EXCEPT ![p] = @ + 1]
            /\ pc' = [pc EXCEPT ![p] = "tender"]
            /\ UNCHANGED count
       ELSE /\ count' = [count EXCEPT ![p] = @ + 1]
            /\ pc' = [pc EXCEPT ![p] = "insert_one"]
            /\ UNCHANGED <<last, handled, tenderIdx>>
    /\ UNCHANGED <<tender_collection, email_body, main_page_html, department_table, deptIdx,
                   org_page_html, tender_links, detail_html, tender_values, failed_tender_html, sent, delivered,
                   departments_to_search, portal, runsStarted, reported, inserted,
                   scenario, isoVars>>

\* line 357
InsertOne(p) ==
    /\ pc[p] = "insert_one"
    /\ tender_collection' = insert_one(tender_collection, tender_id(p))
    /\ inserted' = [inserted EXCEPT ![p] =
                       @ + Documents(insert_one(tender_collection, tender_id(p)))
                         - Documents(tender_collection)]
    /\ pc' = [pc EXCEPT ![p] = "append"]
    /\ UNCHANGED <<email_body, main_page_html, department_table, deptIdx, count, org_page_html, tender_links,
                   tenderIdx, detail_html, tender_values, last, handled,
                   failed_tender_html, sent, delivered, departments_to_search, portal,
                   runsStarted, reported, scenario, isoVars>>

\* lines 360-375: the fragment of the accepted tender
AppendFragment(p) ==
    /\ pc[p] = "append"
    /\ email_body' = [email_body EXCEPT ![p] =
                         Append(@, Fragment(tender_url(p), tender_values[p][1]))]
    /\ reported' = [reported EXCEPT ![tender_id(p)] = @ + 1]
    /\ last' = [last EXCEPT ![p] = "reported"]
    /\ handled' = [handled EXCEPT ![p] = @ \cup {tender_id(p)}]
    /\ tenderIdx' = [tenderIdx EXCEPT ![p] = @ + 1]
    /\ pc' = [pc EXCEPT ![p] = "tender"]
    /\ UNCHANGED <<tender_collection, main_page_html, department_table, deptIdx, count, org_page_html, tender_links,
                   detail_html, tender_values, failed_tender_html, sent, delivered,
                   departments_to_search, portal, runsStarted, inserted, scenario, isoVars>>

\* line 376: the department's counter line
EndDepartment(p) ==
    /\ pc[p] = "tender"
    /\ tenderIdx[p] > Len(tender_links[p])
    /\ email_body' = [email_body EXCEPT ![p] = Append(@, CountLine(count[p], dept(p)))]
    /\ deptIdx' = [deptIdx EXCEPT ![p] = @ + 1]
    /\ pc' = [pc EXCEPT ![p] = "dept"]
    /\ last' = [last EXCEPT ![p] = "none"]
    /\ detail_html' = [detail_html EXCEPT ![p] = None]
    /\ tender_values' = [tender_values EXCEPT ![p] = None]
    /\ UNCHANGED <<tender_collection, main_page_html, department_table, count, org_page_html, tender_links, tenderIdx,
                   handled, failed_tender_html, sent, delivered,
                   departments_to_search, portal, runsStarted, reported, inserted,
                   scenario, isoVars>>

\* lines 378-381 and send_email: the digest is handed to the relay once; a
\* refusal is logged
Finalize(p) ==
    /\ pc[p] = "dept"
    /\ deptIdx[p] > Len(departments_to_search)
    /\ email_body' = [email_body EXCEPT ![p] = Append(@, BodyClose)]
    /\ sent' = [sent EXCEPT ![p] = @ + 1]
    /\ \E accepted \in BOOLEAN :
          /\ delivered' = [delivered EXCEPT ![p] = send_email(accepted).delivered]
          /\ pc' = [pc EXCEPT ![p] = IF send_email(accepted).raised = "none"
                                     THEN "done" ELSE "crashed"]
    /\ last' = [last EXCEPT ![p] = "none"]
    /\ UNCHANGED <<tender_collection, main_page_html, department_table, deptIdx, count,
                   org_page_html, tender_links, tenderIdx, detail_html, tender_values,
                   handled, failed_tender_html, departments_to_search, portal,
                   runsStarted, reported, inserted, scenario, isoVars>>

Step(p) ==
    \/ ProcessDepartment(p)
    \/ ProcessTender(p)
    \/ FindOne(p)
    \/ InsertOne(p)
    \/ AppendFragment(p)
    \/ EndDepartment(p)
    \/ Finalize(p)

Init ==
    /\ Idle
    /\ departments_to_search = departments(PWD \o <<",", " ">> \o WRD)
    /\ portal = "any"
    /\ fetchIn = NoFetch /\ fetchOut = None
    /\ deptIn = NoDept /\ deptOut = None
    /\ valueIn = ErrorPage /\ valueOut = None

Next == \E p \in Procs : StartRun(p) \/ Step(p)

Spec == Init /\ [][Next]_vars

-----------------------------------------------------------------------------
(* Two runs at the same time against the same collection, one department  *)
(* configured; every step of one run may fall between two steps of the     *)
(* other.  Detail pages are fetched or not, and those fetched have a       *)
(* numeric value cell.                                                     *)

StartConcurrentRun(p) ==
    /\ pc[p] = "idle"
    /\ LoadDirectory(p)

InitConc ==
    /\ Idle
    /\ departments_to_search = departments(PWD)
    /\ portal = "wellformed"
    /\ fetchIn = NoFetch /\ fetchOut = None
    /\ deptIn = NoDept /\ deptOut = None
    /\ valueIn = ErrorPage /\ valueOut = None

NextConc == \E p \in Procs : StartConcurrentRun(p) \/ Step(p)

SpecConc == InitConc /\ [][NextConc]_vars

-----------------------------------------------------------------------------
(* Properties of the runs *)

\* the value is the dict of a kept tender
IsRecord(ret) ==
    ret # None /\ DOMAIN ret[1] = {"tender_id", "tender_value", "tender_organization_chain"}

IsFragment(piece) == piece.kind = "Tender URL"
IsFailLine(piece) == piece.kind = "Failed to fetch tender details for"

\* number of fragments of tender `id` in a digest
FragmentsOf(body, id) ==
    Cardinality({i \in 1..Len(body) : IsFragment(body[i]) /\ body[i].tender_id = Some(id)})

FailLines(body) == Cardinality({i \in 1..Len(body) : IsFailLine(body[i])})

\* the step ended a tender iteration of run p
IterationEnded(p) == tenderIdx'[p] = tenderIdx[p] + 1 /\ last'[p] # "none"

\* the page of the iteration: its value cell converts to null or to an
\* integer below 3,000,000
KeepValue(page) ==
    /\ page.value_cell.label /\ page.value_cell.sibling
    /\ parse_value(clean(strip(page.value_cell.text))).exc = "none"
    /\ \/ parse_value(clean(strip(page.value_cell.text))).tender_value = None
       \/ parse_value(clean(strip(page.value_cell.text))).tender_value[1] <= 2999999

IdAbsent(page) ==
    \/ ~page.summary.table \/ page.summary.rows < 3
    \/ page.summary.chain = None
    \/ page.summary.tender_id \in {None, Some("")}

\* C1: with runs one after the other, every tender_id has at most one
\* document in the collection and at most one fragment over all runs, and
\* an id found in the collection gets neither an insert nor a fragment.
C1_AtMostOnce ==
    /\ \A id \in TenderIds : tender_collection[id] <= 1 /\ reported[id] <= 1
    /\ \A p \in Procs :
          last[p] = "seen" =>
              /\ tender_collection[tender_id(p)] = 1
              /\ reported[tender_id(p)] <= 1
              /\ pc[p] = "tender"

\* a second run suppresses an id reported by the first one
C1_Witness ==
    \E id \in TenderIds :
        /\ runsStarted = 2
        /\ last[1] = "seen" /\ tender_id(1) = id
        /\ FragmentsOf(email_body[1], id) = 0
        /\ reported[id] = 1 /\ tender_collection[id] = 1

\* C4 as stated: a run that loaded the department table ends in Finalized
\* with the digest handed to the notification sink exactly once, and in no
\* other way.
C4_EveryRunFinalizes ==
    \A p \in Procs :
        /\ sent[p] <= 1
        /\ (department_table[p] # None /\ pc[p] \in {"done", "crashed"}) =>
               (pc[p] = "done" /\ sent[p] = 1)

\* C5 as stated: a tender whose detail fetch failed and a tender whose page
\* is unparsable each add exactly one failure line to the digest and one
\* file to the diagnostics directory.
C5_FailuresLeaveLineAndFile ==
    [][\A p \in Procs :
          (IterationEnded(p) /\ last'[p] \in {"fetch_failed", "unparsable"}) =>
              /\ FailLines(email_body'[p]) = FailLines(email_body[p]) + 1
              /\ failed_tender_html'[p] = failed_tender_html[p] + 1]_vars

\* C5 amended: a tender whose detail page was fetched but is unparsable adds
\* exactly one failure line (naming its URL) to the digest and one file to
\* the diagnostics directory; a tender whose detail fetch failed adds no
\* line to the digest and no file; a response with an empty body counts as a
\* failed fetch.
C5_UnparsableLeavesLineAndFile ==
    [][\A p \in Procs :
          /\ (IterationEnded(p) /\ last'[p] = "unparsable") =>
                 /\ ~Falsy(detail_html'[p])
                 /\ email_body'[p] = Append(email_body[p], FailLine(tender_url(p)))
                 /\ failed_tender_html'[p] = failed_tender_html[p] + 1
          /\ (IterationEnded(p) /\ Falsy(detail_html'[p])) =>
                 /\ last'[p] = "fetch_failed"
                 /\ email_body'[p] = email_body[p]
                 /\ failed_tender_html'[p] = failed_tender_html[p]
          /\ (IterationEnded(p) /\ ~Falsy(detail_html'[p])
                /\ get_tender_value(detail_html'[p][1]) = [raised |-> "none", ret |-> None]) =>
                 last'[p] = "unparsable"]_vars

\* a fetch failure after an unparsable page in the same run
C5_Witness ==
    /\ last[1] = "fetch_failed"
    /\ failed_tender_html[1] = 1
    /\ FailLines(email_body[1]) = 1

\* C6: a tender that is skipped, already seen or without an id changes
\* neither the digest nor the diagnostics directory nor the collection; a
\* fetched page whose value is kept and whose id cannot be located is
\* parsed into a record with the id absent and ends as "no_id".
C6_SilentOutcomes ==
    [][\A p \in Procs :
          /\ (IterationEnded(p) /\ last'[p] \in {"skip", "no_id", "seen"}) =>
                 /\ email_body'[p] = email_body[p]
                 /\ failed_tender_html'[p] = failed_tender_html[p]
                 /\ tender_collection' = tender_collection
                 /\ reported' = reported
          /\ (IterationEnded(p) /\ ~Falsy(detail_html'[p])
                /\ KeepValue(detail_html'[p][1]) /\ IdAbsent(detail_html'[p][1])) =>
                 /\ last'[p] = "no_id"
                 /\ IsRecord(tender_values'[p])
                 /\ tender_values'[p][1].tender_id \in {None, Some("")}]_vars

C6_Witness ==
    /\ last[1] = "no_id"
    /\ IsRecord(tender_values[1])
    /\ tender_values[1][1].tender_id = None
    /\ email_body[1] = <<BodyOpen, Heading(PWD), TotalLine(1)>>
    /\ failed_tender_html[1] = 0

\* C9: the collection changes only by the insert of a kept, identified
\* tender that was not in it, and at every step every tender_id with a
\* fragment in a digest is in the collection.
C9_InsertBeforeFragment ==
    [][/\ \A p \in Procs : \A id \in TenderIds :
             FragmentsOf(email_body'[p], id) > 0 => tender_collection'[id] > 0
       /\ tender_collection' # tender_collection =>
             \E p \in Procs :
                /\ pc[p] = "insert_one" /\ pc'[p] = "append"
                /\ KeepValue(detail_html[p][1]) /\ ~IdAbsent(detail_html[p][1])
                /\ tender_collection[tender_id(p)] = 0
                /\ tender_collection' = [tender_collection EXCEPT ![tender_id(p)] = 1]
                /\ email_body' = email_body]_vars

\* between the insert and the fragment
C9_Witness ==
    /\ pc[1] = "append"
    /\ tender_collection[tender_id(1)] = 1
    /\ FragmentsOf(email_body[1], tender_id(1)) = 0

-----------------------------------------------------------------------------
(* Properties of two runs at the same time *)

\* run p inserted tender id: its fragment is in the digest or is the next
\* thing appended
Inserted(p, id) ==
    \/ FragmentsOf(email_body[p], id) > 0
    \/ pc[p] = "append" /\ tender_id(p) = id

\* C10: with two runs interleaved on an empty collection, a tender that
\* both runs fetched, parsed as kept and identified, and finished with has a
\* fragment in the digest of at least one of them; each run inserts and
\* reports an id at most once, so an id has at most two documents and two
\* fragments; the collection holds exactly one document per insert made
\* (none is removed or altered).
C10_RaceOnlyDuplicates ==
    \A id \in TenderIds :
        /\ (\A p \in Procs : id \in handled[p]) =>
               (\E p \in Procs : FragmentsOf(email_body[p], id) = 1)
        /\ \A p \in Procs : FragmentsOf(email_body[p], id) <= 1
        /\ tender_collection[id] = Cardinality({p \in Procs : Inserted(p, id)})
        /\ reported[id] = Cardinality({p \in Procs : FragmentsOf(email_body[p], id) > 0})

\* the race: both runs inserted and reported the same id
C10_Witness ==
    \E id \in TenderIds :
        /\ tender_collection[id] = 2
        /\ \A p \in Procs : FragmentsOf(email_body[p], id) = 1

-----------------------------------------------------------------------------
(* Properties of fetch_page *)

Occurrences(seq, x) == Cardinality({i \in 1..Len(seq) : seq[i] = x})
Restarts == Occurrences(fetchOut[1].requests, restart_url)
Gets == Occurrences(fetchOut[1].requests, fetchIn.url)

\* C2 as stated: whenever the body of the first GET's response contains the
\* expiry marker, exactly one restart and exactly one retried GET are issued;
\* never more than one restart or two GETs; without the marker, no restart
\* and no retry.
C2_MarkerAlwaysRecovers ==
    fetchOut # None =>
        /\ Restarts <= 1 /\ Gets <= 2
        /\ (~fetchIn.r1.exc /\ fetchIn.r1.text.marker) => (Restarts = 1 /\ Gets = 2)
        /\ ~(~fetchIn.r1.exc /\ fetchIn.r1.text.marker) => (Restarts = 0 /\ Gets = 1)

FirstExpired == ~fetchIn.r1.exc /\ fetchIn.r1.ok /\ fetchIn.r1.text.marker

\* C2 amended: when the first GET returns a 2xx response whose body contains
\* the expiry marker, exactly one restart request is issued, followed by
\* exactly one retried GET of the original URL if the restart request did
\* not fail at the transport level (and by none if it did); in every other
\* case there is no restart and no retry; no fetch issues more than one
\* restart or more than two GETs of the original URL.
C2_SingleShotRecovery ==
    fetchOut # None =>
        /\ Restarts <= 1 /\ Gets <= 2
        /\ Len(fetchOut[1].requests) = Restarts + Gets
        /\ FirstExpired => /\ Restarts = 1
                           /\ fetchIn.rr.exc => Gets = 1
                           /\ ~fetchIn.rr.exc => Gets = 2
        /\ ~FirstExpired => (Restarts = 0 /\ Gets = 1)

C2_Witness ==
    /\ fetchOut # None
    /\ FirstExpired /\ ~fetchIn.rr.exc
    /\ fetchOut[1].requests = <<fetchIn.url, restart_url, fetchIn.url>>

\* C3 as stated: fetch_page never returns a body that contains the expiry
\* marker; a second consecutive expiry yields the failure result (None).
C3_NeverReturnsExpiredPage ==
    fetchOut # None =>
        (fetchOut[1].text # None => ~fetchOut[1].text[1].marker)

-----------------------------------------------------------------------------
(* Properties of get_tender_value *)

ValueText == clean(strip(valueIn.value_cell.text))
HasValueCell == valueIn.value_cell.label /\ valueIn.value_cell.sibling

\* C7: a value that parsed to null or to an integer below 3,000,000 is kept
\* (the full record is returned, carrying that value); a value that parsed
\* to 3,000,000 or more is skipped (the SKIP sentinel is returned).
C7_Threshold ==
    (valueOut # None /\ HasValueCell /\ parse_value(ValueText).exc = "none") =>
        LET v == parse_value(ValueText).tender_value
            out == valueOut[1]
        IN  /\ out.raised = "none"
            /\ (v = None \/ v[1] <= 2999999) =>
                   (IsRecord(out.ret) /\ out.ret[1].tender_value = v)
            /\ (v # None /\ v[1] >= 3000000) => out.ret = Some(SKIP)

C7_Witness ==
    /\ valueOut # None
    /\ valueIn.value_cell.text = <<"3", "0", "0", "0", "0", "0", "0">>
    /\ valueOut[1].ret = Some(SKIP)

HasLetter(s) == \E i \in 1..Len(s) : s[i] \notin Digits \cup {".", "-", "+", " "}

\* C8 as stated: after stripping separators and the currency symbol, "NA"
\* in any case or "" gives the null value, a token of digits gives its
\* integer value, any token with other letters is Unparsable (None is
\* returned), and no token makes an exception leave get_tender_value.
C8_Normalization ==
    (valueOut # None /\ HasValueCell) =>
        LET out == valueOut[1]
        IN  /\ out.raised = "none"
            /\ (upper(ValueText) = <<"N", "A">> \/ ValueText = <<>>) =>
                   (IsRecord(out.ret) /\ out.ret[1].tender_value = None)
            /\ (ValueText # <<>> /\ AllDigits(ValueText)) =>
                   \/ IsRecord(out.ret) /\ out.ret[1].tender_value = Some(ToNat(ValueText))
                   \/ out.ret = Some(SKIP) /\ ToNat(ValueText) >= 3000000
            /\ (HasLetter(ValueText) /\ upper(ValueText) # <<"N", "A">>) =>
                   out.ret = None

-----------------------------------------------------------------------------
(* Properties of the directory and department steps *)

\* the step starts a run of p
StartedRun(p) ==
    /\ runsStarted' # runsStarted
    /\ pc'[p] \in {"exit", "dept"}
    /\ \A q \in Procs \ {p} : pc'[q] = pc[q]

\* the directory page could not be fetched (None or an empty body), or it
\* has fewer than three tables of class list_table
DirectoryFailed(html) == html = None \/ html[1].empty \/ html[1].list_tables < 3

\* C11: a run whose directory page could not be fetched, or whose
\* department table is not found, halts at once: it processes no department,
\* fetches no organisation or tender page, inserts nothing into the
\* collection and never hands a digest to send_email; a halted run takes no
\* further step; and a run whose directory page has its department table
\* does not halt there.
C11_DirectoryFailureIsFatal ==
    [][\A p \in Procs :
          /\ (StartedRun(p) /\ DirectoryFailed(main_page_html'[p])) =>
                 /\ pc'[p] = "exit"
                 /\ tender_collection' = tender_collection
                 /\ reported' = reported
                 /\ sent'[p] = 0 /\ delivered'[p] = "no"
                 /\ deptIdx'[p] = 0
                 /\ email_body'[p] = <<BodyOpen>>
                 /\ org_page_html'[p] = None /\ detail_html'[p] = None
          /\ (StartedRun(p) /\ ~DirectoryFailed(main_page_html'[p])) =>
                 pc'[p] = "dept"
          /\ (pc[p] = "exit" /\ ~StartedRun(p)) =>
                 /\ pc'[p] = "exit"
                 /\ sent'[p] = 0 /\ delivered'[p] = "no"
                 /\ deptIdx'[p] = 0
                 /\ email_body'[p] = <<BodyOpen>>
                 /\ org_page_html'[p] = None /\ detail_html'[p] = None
                 /\ inserted'[p] = 0]_vars

\* a second run halts on a directory page with two list_table tables, after
\* a first run that inserted a tender
C11_Witness ==
    /\ runsStarted = 2
    /\ pc[1] = "exit"
    /\ main_page_html[1] # None
    /\ ~main_page_html[1][1].empty /\ main_page_html[1][1].list_tables = 2
    /\ tender_collection["T1"] = 1
    /\ sent[1] = 0 /\ email_body[1] = <<BodyOpen>>

\* the step is run p's ProcessDepartment
DepartmentStep(p) ==
    /\ pc[p] = "dept"
    /\ deptIdx[p] <= Len(departments_to_search)
    /\ email_body'[p] # email_body[p]

\* the department is over and the run goes on with the next one
NextDepartment(p) ==
    /\ pc'[p] = "dept"
    /\ deptIdx'[p] = deptIdx[p] + 1
    /\ tender_links'[p] = tender_links[p] /\ tenderIdx'[p] = tenderIdx[p]
    /\ detail_html'[p] = None
    /\ tender_collection' = tender_collection

\* the departments of the headings of a digest, in order
HeadingsOf(body) ==
    LET hs == SelectSeq(body, LAMBDA piece : piece.kind = "<h2>Department:")
    IN  [i \in 1..Len(hs) |-> hs[i].dept]

\* C12: a department whose link is not resolved, and a department whose
\* organisation page could not be fetched (None or an empty body), each get
\* their heading followed by one line ("Not found or no link available." or
\* "Failed to fetch organisation page."), no tender of theirs is fetched,
\* and the run goes on with the next department; a finished run has
\* processed every configured department, in order; a run is never ended by
\* one of these two outcomes.
C12_DepartmentFailuresAreLocal ==
    [][\A p \in Procs :
          /\ (DepartmentStep(p)
                /\ extract_department_link(department_table[p][1], dept(p)) = None) =>
                 /\ email_body'[p] = email_body[p] \o
                        <<Heading(dept(p)),
                          Piece("Not found or no link available.", <<>>, <<>>, None, None, 0)>>
                 /\ org_page_html'[p] = org_page_html[p]
                 /\ NextDepartment(p)
          /\ (DepartmentStep(p)
                /\ extract_department_link(department_table[p][1], dept(p)) # None
                /\ (org_page_html'[p] = None \/ org_page_html'[p][1].empty)) =>
                 /\ email_body'[p] = email_body[p] \o
                        <<Heading(dept(p)),
                          Piece("Failed to fetch organisation page.", <<>>, <<>>, None, None, 0)>>
                 /\ NextDepartment(p)
          /\ pc'[p] = "done" =>
                 HeadingsOf(email_body'[p]) = departments_to_search
          /\ (pc'[p] = "crashed" /\ pc[p] = "dept") =>
                 /\ extract_department_link(department_table[p][1], dept(p)) # None
                 /\ org_page_html'[p] # None /\ ~org_page_html'[p][1].empty]_vars

\* the organisation page of the first department fails to load, the second
\* department is listed without a link, and the run finishes
C12_Witness ==
    /\ pc[1] = "done"
    /\ email_body[1] = <<BodyOpen, Heading(PWD), OrgFailedLine,
                         Heading(WRD), NotFoundLine, BodyClose>>

-----------------------------------------------------------------------------
(* The end-to-end scenario *)

Contains(body, piece) == \E i \in 1..Len(body) : body[i] = piece

Fragments(body) == SelectSeq(body, IsFragment)

\* C13 as stated: a run of the end-to-end scenario (empty collection, the
\* directory lists the department, its organisation page lists two tenders,
\* the first parses to 2,500,000 with id T1, the second to 5,000,000 with
\* id T2) ends with exactly T1 in the collection, and the delivered digest
\* contains "Found 2 total tenders", exactly one fragment, which is T1's,
\* and the line "Found 1 new tenders for" the department.
C13_EndToEndScenario ==
    \A p \in Procs :
        (/\ scenario[p] /\ pc[p] = "done" /\ delivered[p] = "sent"
         /\ \A q \in Procs \ {p} : pc[q] = "idle") =>
            /\ tender_collection = [id \in TenderIds |-> IF id = "T1" THEN 1 ELSE 0]
            /\ Contains(email_body[p], Piece("Found n total tenders.", <<>>, <<>>, None, None, 2))
            /\ Len(Fragments(email_body[p])) = 1
            /\ Fragments(email_body[p])[1].tender_id = Some("T1")
            /\ Fragments(email_body[p])[1].tender_value = Some(2500000)
            /\ Contains(email_body[p], Piece("Found n new tenders for", PWD, <<>>, None, None, 1))

-----------------------------------------------------------------------------
(* Properties of the department resolution *)

\* the i-th name as written in DEPARTMENTS, and the text of the portal's cell
ConfiguredName(i) == split(deptIn.DEPARTMENTS, ",")[i]
ListedName == deptIn.row.org_name

\* C14 as stated: a link is returned only when the configured name is
\* character-for-character equal to the portal's listed name; a name that
\* differs by case or by whitespace, leading and trailing whitespace on
\* either side included, is not found.
C14_ExactMatchOnly ==
    deptOut # None =>
        \A i \in 1..Len(deptOut[1]) :
            deptOut[1][i] # None => ConfiguredName(i) = ListedName

\* C14 amended: the configured name and the portal's listed name are
\* compared after leading and trailing whitespace is removed from both; a
\* link is returned exactly when the two stripped names are
\* character-for-character equal (and the row has a link), so a name that
\* differs by letter case or by whitespace inside the name is not found,
\* while leading or trailing whitespace on either side is ignored.
C14_MatchAfterStripping ==
    deptOut # None =>
        /\ Len(deptOut[1]) = Len(split(deptIn.DEPARTMENTS, ","))
        /\ \A i \in 1..Len(deptOut[1]) :
              /\ deptOut[1][i] # None <=>
                     /\ deptIn.row.href # None
                     /\ strip(ConfiguredName(i)) = strip(ListedName)
              /\ deptOut[1][i] # None =>
                     deptOut[1][i] = Some(<<BASE_URL, deptIn.row.href[1]>>)
              /\ (ConfiguredName(i) = ListedName /\ deptIn.row.href # None) =>
                     deptOut[1][i] # None

\* padded on one side in the configuration and on the other on the portal
C14_Witness ==
    /\ deptOut # None
    /\ deptIn.DEPARTMENTS = <<" ", "P">>
    /\ deptIn.row.org_name = <<"P", " ">>
    /\ deptOut[1] = <<Some(<<BASE_URL, "/org1">>)>>

-----------------------------------------------------------------------------
(* Properties of the extractors inside a run *)

\* C15 as stated: whatever page an extractor receives, it returns a value
\* or a marker and never raises: get_tender_links_from_org_page on every
\* organisation page fetched (a page without any list_table included),
\* get_tender_value on every detail page fetched; and no run is ended
\* inside the department loop.
C15_ExtractorsNeverRaise ==
    \A p \in Procs :
        /\ (org_page_html[p] # None /\ ~org_page_html[p][1].empty) =>
               get_tender_links_from_org_page(org_page_html[p][1]).raised = "none"
        /\ (detail_html[p] # None /\ ~detail_html[p][1].empty) =>
               get_tender_value(detail_html[p][1]).raised = "none"
        /\ pc[p] # "crashed"

-----------------------------------------------------------------------------
(* Properties of the counter and of the order of the digest *)

IsHeading(piece) == piece.kind = "<h2>Department:"
IsCountLine(piece) == piece.kind = "Fount n new tenders for"

\* position of the last heading of a digest (0: none)
LastHeading(body) ==
    IF \A i \in 1..Len(body) : ~IsHeading(body[i]) THEN 0
    ELSE CHOOSE i \in 1..Len(body) :
             IsHeading(body[i]) /\ \A j \in (i + 1)..Len(body) : ~IsHeading(body[j])

\* number of fragments appended for the department being processed
FragmentsOfDepartment(body) ==
    Cardinality({i \in (LastHeading(body) + 1)..Len(body) : IsFragment(body[i])})

\* C16: the counter changes only by the increment of a tender that passed
\* the dedup check (and by its reset for the next department); each such
\* tender gets exactly one insert and exactly one fragment; between two
\* tenders, and when the department's counter line is written, the count
\* equals the number of fragments appended for the department in this run
\* and the number of documents inserted while processing it; the counter
\* line reports that count.
C16_CounterMatchesFragmentsAndInserts ==
    [][\A p \in Procs :
          /\ count'[p] # count[p] =>
                 \/ pc[p] = "find_one" /\ pc'[p] = "insert_one" /\ count'[p] = count[p] + 1
                 \/ count'[p] = 0 /\ (DepartmentStep(p) \/ StartedRun(p))
          /\ (pc[p] = "find_one" /\ pc'[p] = "insert_one") =>
                 count'[p] = count[p] + 1
          /\ pc[p] = "insert_one" =>
                 (pc'[p] \in {"insert_one", "append"} /\ email_body'[p] = email_body[p])
          /\ pc[p] = "append" =>
                 \/ UNCHANGED <<pc[p], email_body[p]>>
                 \/ /\ pc'[p] = "tender"
                    /\ Len(email_body'[p]) = Len(email_body[p]) + 1
                    /\ SubSeq(email_body'[p], 1, Len(email_body[p])) = email_body[p]
                    /\ IsFragment(email_body'[p][Len(email_body'[p])])
          /\ pc'[p] = "tender" =>
                 /\ count'[p] = FragmentsOfDepartment(email_body'[p])
                 /\ count'[p] = inserted'[p]
          /\ (pc[p] = "tender" /\ pc'[p] = "dept") =>
                 /\ Len(email_body'[p]) = Len(email_body[p]) + 1
                 /\ IsCountLine(email_body'[p][Len(email_body'[p])])
                 /\ email_body'[p][Len(email_body'[p])].n = count[p]
                 /\ email_body'[p][Len(email_body'[p])].dept = dept(p)
                 /\ count[p] = FragmentsOfDepartment(email_body[p])
                 /\ count[p] = inserted[p]]_vars

\* a department with two tenders, one of them reported, and its counter line
C16_Witness ==
    /\ pc[1] = "dept" /\ deptIdx[1] = 2
    /\ Len(tender_links[1]) = 2
    /\ count[1] = 1 /\ inserted[1] = 1
    /\ FragmentsOfDepartment(email_body[1]) = 1
    /\ email_body[1][Len(email_body[1])] = CountLine(1, PWD)

IsPrefix(s, t) == Len(s) <= Len(t) /\ SubSeq(t, 1, Len(s)) = s

\* the pieces that name a tender: fragments and failure lines
NamesTender(piece) == IsFragment(piece) \/ IsFailLine(piece)

\* position of a tender URL in the organisation listing
ListingIndex(url) == url[2][2]

\* the digest is in order: it opens with the body tag; the headings are
\* those of the configured departments, in configured order, one each; every
\* line of a department comes after a heading; between a heading and the
\* next, the total line comes first, the tenders come in the order of the
\* listing, and the counter line, which names the department of the
\* heading, comes last
InOrder(body) ==
    /\ body # <<>> => body[1] = BodyOpen
    /\ IsPrefix(HeadingsOf(body), departments_to_search)
    /\ \A i \in 2..Len(body) :
          (~IsHeading(body[i]) /\ body[i] # BodyClose) =>
              LastHeading(SubSeq(body, 1, i)) > 0
    /\ \A i \in 1..Len(body) : \A j \in (i + 1)..Len(body) :
          (\A k \in (i + 1)..j : ~IsHeading(body[k])) =>
              /\ (NamesTender(body[i]) /\ NamesTender(body[j])) =>
                     ListingIndex(body[i].url) < ListingIndex(body[j].url)
              /\ body[j].kind = "Found n total tenders." => IsHeading(body[i])
              /\ IsCountLine(body[i]) => body[j] = BodyClose
              /\ (IsHeading(body[i]) /\ IsCountLine(body[j])) => body[j].dept = body[i].dept

\* C17: within a run the digest only grows at its end (what was appended is
\* never removed or reordered), and at every step it is in order: by
\* department in configured order, each heading before all the lines of its
\* department, all entries of a department before the next heading, and
\* within a department by the order of the organisation listing; a piece
\* appended while a department is processed lies under the heading of that
\* department.
C17_DigestAppendOnlyAndOrdered ==
    [][\A p \in Procs :
          /\ ~StartedRun(p) => IsPrefix(email_body[p], email_body'[p])
          /\ InOrder(email_body'[p])
          /\ pc'[p] \in {"tender", "find_one", "insert_one", "append"} =>
                 email_body'[p][LastHeading(email_body'[p])] =
                     Heading(departments_to_search[deptIdx'[p]])]_vars

KindsOf(body) == [i \in 1..Len(body) |-> body[i].kind]

\* a finished digest with a failure line and a fragment under the first
\* department and a fragment under the second
C17_Witness ==
    /\ pc[1] = "done"
    /\ HeadingsOf(email_body[1]) = <<PWD, WRD>>
    /\ KindsOf(email_body[1]) =
          <<"<html><body>", "<h2>Department:", "Found n total tenders.",
            "Failed to fetch tender details for", "Tender URL", "Fount n new tenders for",
            "<h2>Department:", "Found n total tenders.", "Tender URL",
            "Fount n new tenders for", "</body></html>">>

-----------------------------------------------------------------------------
(* Properties of the delivery and of the collection *)

\* the step is run p's Finalize
FinalizeStep(p) ==
    /\ pc[p] = "dept" /\ deptIdx[p] > Len(departments_to_search)
    /\ pc'[p] # pc[p]

\* C18: the digest is handed to send_email once, at the end of the run;
\* whether the relay accepts or refuses it, the run finishes normally and
\* the collection is not touched; after a refusal there is no second send,
\* and every tender_id the run inserted and reported is still in the
\* collection.
C18_DeliveryFailureIsLogged ==
    [][\A p \in Procs :
          /\ FinalizeStep(p) =>
                 /\ sent[p] = 0 /\ sent'[p] = 1
                 /\ delivered'[p] \in {"sent", "refused"}
                 /\ pc'[p] = "done"
                 /\ tender_collection' = tender_collection
          /\ sent'[p] # sent[p] => (FinalizeStep(p) \/ StartedRun(p))
          /\ delivered'[p] = "refused" =>
                 /\ pc'[p] = "done" /\ sent'[p] = 1
                 /\ \A id \in TenderIds :
                       FragmentsOf(email_body'[p], id) > 0 => tender_collection'[id] > 0
          /\ (delivered[p] = "refused" /\ ~StartedRun(p)) =>
                 /\ UNCHANGED <<pc[p], sent[p], delivered[p], email_body[p]>>
                 /\ \A id \in TenderIds : tender_collection'[id] >= tender_collection[id]]_vars

\* the relay refused the digest of a run that inserted and reported T1
C18_Witness ==
    /\ pc[1] = "done" /\ delivered[1] = "refused" /\ sent[1] = 1
    /\ FragmentsOf(email_body[1], "T1") = 1
    /\ tender_collection["T1"] = 1

\* the step is run p's ProcessTender
TenderStep(p) ==
    /\ pc[p] = "tender" /\ tenderIdx[p] <= Len(tender_links[p])
    /\ (tenderIdx'[p] # tenderIdx[p] \/ pc'[p] # pc[p])

\* C19 as stated: a tender whose detail page is fetched, whose value is
\* null or below the threshold and whose tender_id is there, whatever its
\* text (the text "SKIP" included), reaches the dedup check under that id;
\* if the id is not in the collection it is inserted, and then reported.
C19_KeptIdentifiedUnseenIsReported ==
    [][\A p \in Procs :
          /\ (/\ TenderStep(p)
              /\ detail_html'[p] # None /\ ~detail_html'[p][1].empty
              /\ KeepValue(detail_html'[p][1]) /\ ~IdAbsent(detail_html'[p][1])) =>
                 /\ pc'[p] = "find_one"
                 /\ tender_values'[p][1].tender_id = detail_html'[p][1].summary.tender_id
          /\ (pc[p] = "find_one" /\ pc'[p] # pc[p]
                /\ tender_collection[tender_id(p)] = 0) =>
                 pc'[p] = "insert_one"
          /\ (pc[p] = "insert_one" /\ pc'[p] # pc[p]) =>
                 /\ pc'[p] = "append"
                 /\ tender_collection'[tender_id(p)] = tender_collection[tender_id(p)] + 1
          /\ (pc[p] = "append" /\ pc'[p] # pc[p]) =>
                 FragmentsOf(email_body'[p], tender_id(p)) =
                     FragmentsOf(email_body[p], tender_id(p)) + 1]_vars

\* the value cell of the page converts to an integer of 3,000,000 or more
SkipValue(page) ==
    /\ page.value_cell.label /\ page.value_cell.sibling
    /\ parse_value(clean(strip(page.value_cell.text))).exc = "none"
    /\ parse_value(clean(strip(page.value_cell.text))).tender_value # None
    /\ parse_value(clean(strip(page.value_cell.text))).tender_value[1] >= 3000000

\* C20: the collection only grows; it changes in one kind of step only, the
\* insert of the accepted tender_id, which adds one document of that id and
\* is followed by the fragment; the start of a run with its directory load,
\* the department step, the tender step whatever its outcome (fetch
\* failure, unparsable, skip, missing id), the dedup check (already seen or
\* not), the fragment, the counter line and the send leave it unchanged; a
\* tender whose value is at or above the threshold ends as "skip" without
\* its id being recorded.
C20_CollectionFrame ==
    [][/\ \A id \in TenderIds : tender_collection'[id] >= tender_collection[id]
       /\ tender_collection' # tender_collection =>
             \E p \in Procs :
                /\ pc[p] = "insert_one" /\ pc'[p] = "append"
                /\ last[p] = "identified"
                /\ tender_collection' =
                       [tender_collection EXCEPT ![tender_id(p)] = @ + 1]
       /\ \A p \in Procs :
             /\ (\/ StartedRun(p) \/ DepartmentStep(p) \/ TenderStep(p) \/ FinalizeStep(p)
                 \/ pc[p] \in {"find_one", "append"} /\ pc'[p] # pc[p]
                 \/ pc[p] = "tender" /\ pc'[p] = "dept") =>
                    tender_collection' = tender_collection
             /\ (TenderStep(p) /\ last'[p] \in {"fetch_failed", "unparsable", "skip", "no_id"}) =>
                    /\ tender_collection' = tender_collection
                    /\ pc'[p] = "tender"
             /\ (/\ TenderStep(p)
                 /\ detail_html'[p] # None /\ ~detail_html'[p][1].empty
                 /\ SkipValue(detail_html'[p][1])) =>
                    /\ last'[p] = "skip"
                    /\ pc'[p] = "tender"
                    /\ tender_collection' = tender_collection]_vars

\* T2 was skipped and is not in the collection, which holds T1
C20_Witness ==
    /\ last[1] = "skip"
    /\ detail_html[1] # None
    /\ detail_html[1][1].summary.tender_id = Some("T2")
    /\ tender_collection["T1"] = 1 /\ tender_collection["T2"] = 0

====
